---- MODULE Spec2Model ----
(***************************************************************************)
(* Model of the CHSH notebook                                              *)
(*   src/FR/Premiers pas sur un ordinateur quantique/                      *)
(*       2_CHSH_inequality_v2 (1).py                                       *)
(*                                                                         *)
(* The notebook is a Jupyter kernel session: module-level names (dev,      *)
(* measure_obs, A0, A1, B0, B1, observables, expvals, chsh, CHSH_expval,   *)
(* my_config) are the state, every cell is an operation that can be run    *)
(* (and re-run) once the names it reads are bound, and compute_chsh and    *)
(* the hardware cell walk through their four measure_obs calls one at a    *)
(* time.                                                                   *)
(*                                                                         *)
(* Numbers are exact elements of Q(sqrt 2), (a + b*sqrt2)/d, which holds   *)
(* every value the notebook computes (amplitudes 1/sqrt2, observables      *)
(* (Z +- X)/sqrt2, sampled means k/shots).  Floating-point rounding is     *)
(* not modelled.                                                           *)
(***************************************************************************)
EXTENDS Integers, Sequences, FiniteSets, TLC

(***************************************************************************)
(* Exact arithmetic in Q(sqrt 2)                                           *)
(***************************************************************************)
AbsInt(n) == IF n < 0 THEN -n ELSE n

RECURSIVE Gcd(_, _)
Gcd(m, n) == IF n = 0 THEN m ELSE Gcd(n, m % n)

\* (a + b*sqrt2)/d in lowest terms, d > 0
Q2(a, b, d) ==
    LET g == Gcd(Gcd(AbsInt(a), AbsInt(b)), AbsInt(d))
        s == IF d < 0 THEN -1 ELSE 1
    IN  [a |-> s * (a \div g), b |-> s * (b \div g), d |-> s * (d \div g)]

Zero == Q2(0, 0, 1)
One == Q2(1, 0, 1)
Two == Q2(2, 0, 1)
Four == Q2(4, 0, 1)
Sqrt2 == Q2(0, 1, 1)
TwoSqrt2 == Q2(0, 2, 1)

Add(x, y) == Q2(x.a * y.d + y.a * x.d, x.b * y.d + y.b * x.d, x.d * y.d)
Neg(x) == [a |-> -x.a, b |-> -x.b, d |-> x.d]
Sub(x, y) == Add(x, Neg(y))
Mul(x, y) == Q2(x.a * y.a + 2 * x.b * y.b, x.a * y.b + x.b * y.a, x.d * y.d)
\* x / sqrt2 = x * sqrt2 / 2
DivSqrt2(x) == Q2(2 * x.b, x.a, 2 * x.d)

\* sign of a + b*sqrt2 (a*a = 2*b*b only for a = b = 0)
Sign(x) ==
    CASE x.a = 0 /\ x.b = 0 -> 0
      [] x.a >= 0 /\ x.b >= 0 -> 1
      [] x.a <= 0 /\ x.b <= 0 -> -1
      [] x.a > 0 /\ x.b < 0 ->
            IF -x.b >= x.a THEN -1
            ELSE IF x.a >= 2 * (-x.b) THEN 1
            ELSE IF x.a * x.a > 2 * x.b * x.b THEN 1 ELSE -1
      [] OTHER ->
            IF x.b >= -x.a THEN 1
            ELSE IF -x.a >= 2 * x.b THEN -1
            ELSE IF 2 * x.b * x.b > x.a * x.a THEN 1 ELSE -1

Leq(x, y) == Sign(Sub(x, y)) <= 0
Lt(x, y) == Sign(Sub(x, y)) < 0
AbsQ(x) == IF Sign(x) < 0 THEN Neg(x) ELSE x

\* 1/x for x # 0: d*(a - b*sqrt2)/(a*a - 2*b*b)
Inv(x) == Q2(x.d * x.a, -(x.d * x.b), x.a * x.a - 2 * x.b * x.b)
\* an integer above |x|
UpperInt(x) == ((AbsInt(x.a) + 2 * AbsInt(x.b)) \div x.d) + 1
\* |x - y| <= 1/n.  A difference whose inverse is below n is above 1/n, which
\* settles every case but a tiny one without multiplying by n.
Within(x, y, n) ==
    LET u == AbsQ(Sub(x, y))
    IN  \/ u = Zero
        \/ /\ UpperInt(Inv(u)) >= n
           /\ Leq(Mul(u, Q2(n, 0, 1)), One)
InUnit(x) == Leq(Neg(One), x) /\ Leq(x, One)

RECURSIVE SumSeq(_)
SumSeq(s) == IF s = <<>> THEN Zero ELSE Add(SumSeq(SubSeq(s, 1, Len(s) - 1)), s[Len(s)])

(***************************************************************************)
(* Option values: a module-level name is unbound (<<>>) or bound (<<v>>)   *)
(***************************************************************************)
Unbound == <<>>
Bound(v) == <<v>>
IsBound(n) == n # <<>>
Val(n) == n[1]

(***************************************************************************)
(* The two-qubit register and the gates of bell_pair                       *)
(* basis order |q0 q1> = |00>, |01>, |10>, |11>                            *)
(***************************************************************************)
Ket00 == <<One, Zero, Zero, Zero>>

Id2 == <<<<One, Zero>>, <<Zero, One>>>>
PauliZMat == <<<<One, Zero>>, <<Zero, Neg(One)>>>>
PauliXMat == <<<<Zero, One>>, <<One, Zero>>>>
HadamardMat == <<<<DivSqrt2(One), DivSqrt2(One)>>, <<DivSqrt2(One), Neg(DivSqrt2(One))>>>>
CNOTMat ==
    << <<One, Zero, Zero, Zero>>,
       <<Zero, One, Zero, Zero>>,
       <<Zero, Zero, Zero, One>>,
       <<Zero, Zero, One, Zero>> >>

\* operator on wire 0 (x) operator on wire 1
Kron(M, N) ==
    [i \in 1..4 |-> [j \in 1..4 |->
        Mul(M[((i - 1) \div 2) + 1][((j - 1) \div 2) + 1],
            N[((i - 1) % 2) + 1][((j - 1) % 2) + 1])]]

MatVec(M, v) == [i \in 1..4 |-> SumSeq([j \in 1..4 |-> Mul(M[i][j], v[j])])]
Dot(u, v) == SumSeq([i \in 1..4 |-> Mul(u[i], v[i])])

\* qml.Hadamard(wires = 0)
Hadamard0(psi) == MatVec(Kron(HadamardMat, Id2), psi)
\* qml.CNOT(wires = [0,1])
CNOT01(psi) == MatVec(CNOTMat, psi)

\* slip: the CNOT is left out, the register stays a product state
bell_pair_NoCNOT(psi) == Hadamard0(psi)

\* bell_pair(): Hadamard on wire 0, then CNOT
bell_pair(psi) == CNOT01(Hadamard0(psi))

(***************************************************************************)
(* Observables.  A one-qubit observable is z*Z + x*X on a wire; the        *)
(* product A @ B of an observable on wire 0 and one on wire 1 is the       *)
(* combination zz*ZZ + zx*ZX + xz*XZ + xx*XX.                              *)
(***************************************************************************)
Terms == {"zz", "zx", "xz", "xx"}

PauliZ(w) == [wire |-> w, z |-> One, x |-> Zero]
PauliX(w) == [wire |-> w, z |-> Zero, x |-> One]
ObsAdd(P, Q) == [wire |-> P.wire, z |-> Add(P.z, Q.z), x |-> Add(P.x, Q.x)]
ObsSub(P, Q) == [wire |-> P.wire, z |-> Sub(P.z, Q.z), x |-> Sub(P.x, Q.x)]
ObsDivSqrt2(P) == [wire |-> P.wire, z |-> DivSqrt2(P.z), x |-> DivSqrt2(P.x)]

\* A @ B
Prod(A, B) ==
    [zz |-> Mul(A.z, B.z), zx |-> Mul(A.z, B.x),
     xz |-> Mul(A.x, B.z), xx |-> Mul(A.x, B.x)]

TermMat(t) ==
    CASE t = "zz" -> Kron(PauliZMat, PauliZMat)
      [] t = "zx" -> Kron(PauliZMat, PauliXMat)
      [] t = "xz" -> Kron(PauliXMat, PauliZMat)
      [] OTHER    -> Kron(PauliXMat, PauliXMat)

\* <psi| P (x) Q |psi>
PauliExpval(t, psi) == Dot(psi, MatVec(TermMat(t), psi))

\* the register measure_obs measures: bell_pair() applied to a fresh |00>
BellState == bell_pair(Ket00)
BellPauli == [t \in Terms |-> PauliExpval(t, BellState)]

\* qml.expval(obs) on an analytic device
ExpvalExact(obs) ==
    Add(Add(Mul(obs.zz, BellPauli["zz"]), Mul(obs.zx, BellPauli["zx"])),
        Add(Mul(obs.xz, BellPauli["xz"]), Mul(obs.xx, BellPauli["xx"])))

(***************************************************************************)
(* Finite-shot estimation.  A Pauli product has outcomes +1/-1, so its     *)
(* mean over Shots samples of which k are -1 is (Shots - 2k)/Shots; on the *)
(* noisy processor every k is possible.  An observable that is a           *)
(* combination of Pauli products is estimated term by term.  The counts    *)
(* are drawn from Grid + 1 evenly spaced values of 0..Shots.               *)
(***************************************************************************)
Shots == 1000
Grid == 2

SampleCounts == {(i * Shots) \div Grid : i \in 0..Grid}
SampleMean(k) == Q2(Shots - 2 * k, 0, Shots)

\* the Pauli products an observable is made of
TermsOf(obs) == {t \in Terms : obs[t] # Zero}

ExpvalSampled(obs, ks) ==
    LET term(t) == IF t \in DOMAIN ks THEN Mul(obs[t], SampleMean(ks[t])) ELSE Zero
    IN  Add(Add(term("zz"), term("zx")), Add(term("xz"), term("xx")))

\* the qnode objects the notebook binds to measure_obs
SimQNode == [dev |-> "default.qubit", shots |-> Unbound]
HwQNode == [dev |-> "monarq.backup", shots |-> Bound(Shots)]

\* slip: set_shots is applied to every qnode, the simulator's too
ExpvalValuesShots(qnode, obs) ==
    {ExpvalSampled(obs, ks) : ks \in [TermsOf(obs) -> SampleCounts]}

\* the values qml.expval(obs) can give on the qnode's device
ExpvalValues(qnode, obs) ==
    IF qnode.shots = Unbound
    THEN {ExpvalExact(obs)}
    ELSE {ExpvalSampled(obs, ks) : ks \in [TermsOf(obs) -> SampleCounts]}

\* slip: the qnode measures without preparing the Bell pair
measure_obs_runs_NoPrep(qnode, obs) ==
    {[value |-> v, ops |-> <<<<"expval", qnode.dev, obs>>>>] :
        v \in ExpvalValues(qnode, obs)}

\* measure_obs(obs): bell_pair(), then return qml.expval(obs).
\* The possible executions: the value returned and the device operations.
measure_obs_runs(qnode, obs) ==
    {[value |-> v, ops |-> <<<<"bell_pair", qnode.dev>>, <<"expval", qnode.dev, obs>>>>] :
        v \in ExpvalValues(qnode, obs)}

(***************************************************************************)
(* The functions of the notebook                                           *)
(***************************************************************************)
alice_observables == <<PauliZ(0), PauliX(0)>>
bob_observables == <<PauliZ(1), PauliX(1)>>
bob_observables_optimal ==
    <<ObsDivSqrt2(ObsAdd(PauliZ(1), PauliX(1))),
      ObsDivSqrt2(ObsSub(PauliZ(1), PauliX(1)))>>

\* slip: the last two products are exchanged
ObservablesListSwapped(a0, a1, b0, b1) ==
    <<Prod(a0, b0), Prod(a0, b1), Prod(a1, b1), Prod(a1, b0)>>

\* compute_chsh: observables = [A0 @ B0, A0 @ B1, A1 @ B0, A1 @ B1]
ObservablesList(a0, a1, b0, b1) ==
    <<Prod(a0, b0), Prod(a0, b1), Prod(a1, b0), Prod(a1, b1)>>

\* slip: np.sum(expvals), no minus sign
AggregateAllPlus(ev) == SumSeq(ev)
\* slip: the minus sign on <A1 B0> instead of <A1 B1>
AggregateMinusThird(ev) == Add(Sub(Add(ev[1], ev[2]), ev[3]), ev[4])
\* slip: np.sum(expvals[:3]) - 2*expvals[3]
AggregateTwiceMinus(ev) == Sub(Sub(SumSeq(SubSeq(ev, 1, 3)), ev[4]), ev[4])

\* compute_chsh: CHSH_expval = np.sum(expvals[:3]) - expvals[3]
Aggregate(ev) == Sub(SumSeq(SubSeq(ev, 1, 3)), ev[4])

\* hardware cell: observables = [A0 @ Z(1), A0 @ X(1), A1 @ Z(1), A1 @ X(1)]
HwObservablesList(a0, a1) ==
    <<Prod(a0, PauliZ(1)), Prod(a0, PauliX(1)), Prod(a1, PauliZ(1)), Prod(a1, PauliX(1))>>

\* slip: A0B1 computed with the sign of A0B0
HwCorrelatorsSignSlip(ev) ==
    <<DivSqrt2(Add(ev[1], ev[2])),
      DivSqrt2(Add(ev[1], ev[2])),
      DivSqrt2(Add(ev[3], ev[4])),
      DivSqrt2(Sub(ev[3], ev[4]))>>

\* hardware cell: A0B0, A0B1, A1B0, A1B1
HwCorrelators(ev) ==
    <<DivSqrt2(Add(ev[1], ev[2])),
      DivSqrt2(Sub(ev[1], ev[2])),
      DivSqrt2(Add(ev[3], ev[4])),
      DivSqrt2(Sub(ev[3], ev[4]))>>

\* slip: A1B1 added instead of subtracted
HwChshAllPlus(ev) ==
    LET c == HwCorrelators(ev)
    IN  Add(Add(Add(c[1], c[2]), c[3]), c[4])

\* hardware cell: CHSH_expval = A0B0 + A0B1 + A1B0 - A1B1
HwChsh(ev) ==
    LET c == HwCorrelators(ev)
    IN  Sub(Add(Add(c[1], c[2]), c[3]), c[4])

(***************************************************************************)
(* State: the kernel's module-level names that a later cell reads, and the *)
(* invocation in progress.  The names chsh, expvals and CHSH_expval of the *)
(* module are assigned and printed but never read back by another cell     *)
(* (the hardware cell rebinds expvals before it reads it); they are the    *)
(* result fields of the invocation record, which is kept until the next    *)
(* cell runs.                                                              *)
(***************************************************************************)
VARIABLES
    dev,          \* module-level dev: device name, or unbound
    measure_obs,  \* module-level measure_obs: a qnode, or unbound
    A0, A1,       \* Alice's observables
    B0, B1,       \* Bob's observables
    my_config,    \* processing configuration of the remote processor
    observables,  \* module-level observables (hardware section)
    pc,           \* "idle", or the list comprehension being evaluated
    call,         \* the running (or last) computation: observables, expvals, result
    trace,        \* device operations of the running (or last) computation
    lhv           \* a local-hidden-variable source measured in place of the qubits

names == <<dev, measure_obs, A0, A1, B0, B1, my_config, observables>>
vars == <<dev, measure_obs, A0, A1, B0, B1, my_config, observables, pc, call, trace, lhv>>

NoCall == [fn |-> "none", observables |-> <<>>, expvals |-> <<>>, result |-> Unbound]

NoLhv == [lam1 |-> <<>>, lam2 |-> <<>>, w |-> 0, chsh |-> Unbound]

\* a fresh kernel: nothing is bound
KernelInit ==
    /\ dev = Unbound
    /\ measure_obs = Unbound
    /\ A0 = Unbound /\ A1 = Unbound
    /\ B0 = Unbound /\ B1 = Unbound
    /\ my_config = Unbound
    /\ observables = Unbound
    /\ pc = "idle"
    /\ call = NoCall
    /\ trace = <<>>

Init ==
    /\ KernelInit
    /\ lhv = NoLhv

\* a cell that only binds names: the record of the previous computation is dropped
BindingCell ==
    /\ pc = "idle"
    /\ pc' = "idle"
    /\ call' = NoCall
    /\ trace' = <<>>
    /\ UNCHANGED lhv

\* cell: def bell_pair, dev = qml.device("default.qubit"), @qml.qnode(dev) def measure_obs
CellSimulator ==
    /\ BindingCell
    /\ dev' = Bound("default.qubit")
    /\ measure_obs' = Bound(SimQNode)
    /\ UNCHANGED <<A0, A1, B0, B1, my_config, observables>>

\* cell: A0, A1 = alice_observables()
CellAlice ==
    /\ BindingCell
    /\ A0' = Bound(alice_observables[1])
    /\ A1' = Bound(alice_observables[2])
    /\ UNCHANGED <<dev, measure_obs, B0, B1, my_config, observables>>

\* cell: B0, B1 = bob_observables()
CellBob ==
    /\ BindingCell
    /\ B0' = Bound(bob_observables[1])
    /\ B1' = Bound(bob_observables[2])
    /\ UNCHANGED <<dev, measure_obs, A0, A1, my_config, observables>>

\* cell: B0, B1 = bob_observables_optimal()
CellBobOptimal ==
    /\ BindingCell
    /\ B0' = Bound(bob_observables_optimal[1])
    /\ B1' = Bound(bob_observables_optimal[2])
    /\ UNCHANGED <<dev, measure_obs, A0, A1, my_config, observables>>

\* cells: imports, my_client = CalculQuebecClient(...), my_config = MonarqDefaultConfig("yukon"),
\* my_config.steps.append(MatrixReadoutMitigation("yukon"))
CellClient ==
    /\ BindingCell
    /\ my_config' = Bound([machine |-> "yukon", steps |-> <<"MatrixReadoutMitigation">>])
    /\ UNCHANGED <<dev, measure_obs, A0, A1, B0, B1, observables>>

\* cell: observables = [...]; dev = qml.device("monarq.backup", ...); def measure_obs.
\* With my_client/my_config unbound the device line raises after observables is assigned.
CellHardwareSetup ==
    /\ BindingCell
    /\ IsBound(A0) /\ IsBound(A1)
    /\ observables' = Bound(HwObservablesList(Val(A0), Val(A1)))
    /\ IF IsBound(my_config)
       THEN /\ dev' = Bound("monarq.backup")
            /\ measure_obs' = Bound(HwQNode)
       ELSE UNCHANGED <<dev, measure_obs>>
    /\ UNCHANGED <<A0, A1, B0, B1, my_config>>

\* one iteration of [measure_obs(obs) for obs in observables]: measure_obs is
\* looked up in the module and called on the next observable
ComprehensionStep ==
    LET i == Len(call.expvals) + 1
    IN  /\ i <= Len(call.observables)
        /\ \E run \in measure_obs_runs(Val(measure_obs), call.observables[i]) :
              /\ call' = [call EXCEPT !.expvals = Append(@, run.value)]
              /\ trace' = trace \o run.ops

\* cell: chsh = compute_chsh(A0, A1, B0, B1): the call and the observables list.
\* An unbound name raises NameError before anything is measured.
CellComputeChsh ==
    /\ pc = "idle"
    /\ IsBound(A0) /\ IsBound(A1) /\ IsBound(B0) /\ IsBound(B1)
    /\ IsBound(measure_obs)
    /\ call' = [fn |-> "compute_chsh",
                observables |-> ObservablesList(Val(A0), Val(A1), Val(B0), Val(B1)),
                expvals |-> <<>>,
                result |-> Unbound]
    /\ trace' = <<>>
    /\ pc' = "chsh_expvals"
    /\ UNCHANGED names
    /\ UNCHANGED lhv

\* compute_chsh: expvals = [measure_obs(obs) for obs in observables]
ChshMeasure ==
    /\ pc = "chsh_expvals"
    /\ ComprehensionStep
    /\ UNCHANGED pc
    /\ UNCHANGED names
    /\ UNCHANGED lhv

\* compute_chsh: CHSH_expval, the prints, return CHSH_expval (bound to chsh)
ChshReturn ==
    /\ pc = "chsh_expvals"
    /\ Len(call.expvals) = Len(call.observables)
    /\ call' = [call EXCEPT !.result = Bound(Aggregate(call.expvals))]
    /\ trace' = Append(trace, <<"aggregate", "compute_chsh">>)
    /\ pc' = "idle"
    /\ UNCHANGED names
    /\ UNCHANGED lhv

\* cell: expvals = [measure_obs(obs) for obs in observables] ...: the start
CellHardwareRun ==
    /\ pc = "idle"
    /\ IsBound(observables)
    /\ IsBound(measure_obs)
    /\ call' = [fn |-> "hardware", observables |-> Val(observables), expvals |-> <<>>,
                result |-> Unbound]
    /\ trace' = <<>>
    /\ pc' = "hw_expvals"
    /\ UNCHANGED names
    /\ UNCHANGED lhv

\* hardware cell: expvals = [measure_obs(obs) for obs in observables]
HwMeasure ==
    /\ pc = "hw_expvals"
    /\ ComprehensionStep
    /\ UNCHANGED pc
    /\ UNCHANGED names
    /\ UNCHANGED lhv

\* hardware cell: A0B0 .. A1B1, CHSH_expval = A0B0 + A0B1 + A1B0 - A1B1, the prints
HwAggregate ==
    /\ pc = "hw_expvals"
    /\ Len(call.expvals) = Len(call.observables)
    /\ call' = [call EXCEPT !.result = Bound(HwChsh(call.expvals))]
    /\ trace' = Append(trace, <<"aggregate", "hardware">>)
    /\ pc' = "idle"
    /\ UNCHANGED names
    /\ UNCHANGED lhv

Next ==
    \/ CellSimulator
    \/ CellAlice
    \/ CellBob
    \/ CellBobOptimal
    \/ CellClient
    \/ CellHardwareSetup
    \/ CellComputeChsh
    \/ ChshMeasure
    \/ ChshReturn
    \/ CellHardwareRun
    \/ HwMeasure
    \/ HwAggregate

Spec == Init /\ [][Next]_vars

(***************************************************************************)
(* The local-hidden-variable bound of the introduction.  A local theory    *)
(* fixes the outcomes a0, a1, b0, b1 in {-1, +1} of all four settings      *)
(* before any is chosen; a source emits such an assignment lam1 with       *)
(* probability w/MixDen and lam2 otherwise.  The correlators of that       *)
(* source are combined as compute_chsh combines the measured ones.         *)
(***************************************************************************)
MixDen == 2

Outcomes == {-1, 1}
Assignments == [a0 : Outcomes, a1 : Outcomes, b0 : Outcomes, b1 : Outcomes]

\* <Ai Bj> of the mixture, in the order of compute_chsh's observables
LhvCorrelators(src) ==
    LET e(x, y) == Q2(src.w * src.lam1[x] * src.lam1[y]
                        + (MixDen - src.w) * src.lam2[x] * src.lam2[y], 0, MixDen)
    IN  <<e("a0", "b0"), e("a0", "b1"), e("a1", "b0"), e("a1", "b1")>>

LhvInit ==
    /\ KernelInit
    /\ lhv \in [lam1 : Assignments, lam2 : Assignments, w : 0..MixDen, chsh : {Unbound}]

LhvMeasure ==
    /\ lhv.chsh = Unbound
    /\ lhv' = [lhv EXCEPT !.chsh = Bound(Aggregate(LhvCorrelators(lhv)))]
    /\ UNCHANGED <<dev, measure_obs, A0, A1, B0, B1, my_config, observables, pc, call, trace>>

LhvNext == LhvMeasure

SpecLHV == LhvInit /\ [][LhvNext]_vars

(***************************************************************************)
(* Properties                                                              *)
(***************************************************************************)
ChshDone == pc = "idle" /\ call.fn = "compute_chsh" /\ IsBound(call.result)
HwDone == pc = "idle" /\ call.fn = "hardware" /\ IsBound(call.result)
OnSimulator == measure_obs = Bound([dev |-> "default.qubit", shots |-> <<>>])
OnProcessor == measure_obs = Bound([dev |-> "monarq.backup", shots |-> <<1000>>])

\* the observables as the notebook's text gives them
ZonQ0 == [wire |-> 0, z |-> One, x |-> Zero]
XonQ0 == [wire |-> 0, z |-> Zero, x |-> One]
ZonQ1 == [wire |-> 1, z |-> One, x |-> Zero]
XonQ1 == [wire |-> 1, z |-> Zero, x |-> One]
ZplusXonQ1 == [wire |-> 1, z |-> Q2(0, 1, 2), x |-> Q2(0, 1, 2)]
ZminusXonQ1 == [wire |-> 1, z |-> Q2(0, 1, 2), x |-> Q2(0, -1, 2)]

AliceZX == A0 = Bound(ZonQ0) /\ A1 = Bound(XonQ0)
BobUnrotated == B0 = Bound(ZonQ1) /\ B1 = Bound(XonQ1)
BobOptimal == B0 = Bound(ZplusXonQ1) /\ B1 = Bound(ZminusXonQ1)

\* C1: when compute_chsh has returned, the value it returned is
\* e1 + e2 + e3 - e4 of the four values its measure_obs calls returned, in
\* the order <A0B0>, <A0B1>, <A1B0>, <A1B1>.
C1_ChshIsSignedSum ==
    ChshDone =>
        /\ Len(call.expvals) = 4
        /\ Val(call.result) =
              Sub(Add(Add(call.expvals[1], call.expvals[2]), call.expvals[3]),
                  call.expvals[4])

\* a return where every sign matters: four nonzero values, the third unlike the fourth
C1_Witness ==
    /\ ChshDone
    /\ \A i \in 1..4 : call.expvals[i] # Zero
    /\ call.expvals[3] # call.expvals[4]
    /\ call.expvals[1] # call.expvals[4]

\* C2: on the simulator, with Alice's Z, X and Bob's Z, X, the four
\* correlators are 1, 0, 0, 1 and compute_chsh returns 0 (no violation: 0 <= 2).
C2_UnrotatedGivesZero ==
    (ChshDone /\ OnSimulator /\ AliceZX /\ BobUnrotated) =>
        /\ call.expvals = <<One, Zero, Zero, One>>
        /\ call.result = Bound(Zero)
        /\ Leq(Val(call.result), Two)

C2_Witness == ChshDone /\ OnSimulator /\ AliceZX /\ BobUnrotated

\* C3: on the simulator (exact expectation values), with Alice's Z, X and
\* Bob's (Z+X)/sqrt2, (Z-X)/sqrt2, compute_chsh returns 2*sqrt2 within 1e-9.
C3_OptimalGivesTwoSqrt2 ==
    (ChshDone /\ OnSimulator /\ AliceZX /\ BobOptimal) =>
        Within(Val(call.result), TwoSqrt2, 1000000000)

C3_Witness == ChshDone /\ OnSimulator /\ AliceZX /\ BobOptimal

\* C4: when compute_chsh has returned and its four expectation values all lie
\* in [-1, 1], the value returned lies in [-4, 4].
C4_AggregateRange ==
    (ChshDone /\ \A i \in 1..4 : InUnit(call.expvals[i])) =>
        /\ Leq(Neg(Four), Val(call.result))
        /\ Leq(Val(call.result), Four)

\* the bound is met: values 1, 1, 1, -1 give 4
C4_Witness ==
    /\ ChshDone
    /\ \A i \in 1..4 : InUnit(call.expvals[i])
    /\ call.result = Bound(Four)

\* the value the optimal bases reach on the simulator
QuantumOptimal ==
    LET obsList == ObservablesList(ZonQ0, XonQ0, ZplusXonQ1, ZminusXonQ1)
    IN  Aggregate([i \in 1..4 |-> ExpvalExact(obsList[i])])

\* C5: every local-hidden-variable source (a fixed assignment of outcomes
\* +1/-1 to a0, a1, b0, b1, or a mixture of two) gives a CHSH combination of
\* at most 2, while the value of the optimal bases on the Bell pair is above
\* 2 and at most 2*sqrt2.
C5_LocalBound ==
    IsBound(lhv.chsh) =>
        /\ Leq(Val(lhv.chsh), Two)
        /\ Lt(Two, QuantumOptimal)
        /\ Leq(QuantumOptimal, TwoSqrt2)

\* a proper mixture of two different assignments that meets the bound 2
C5_Witness ==
    /\ IsBound(lhv.chsh)
    /\ lhv.lam1 # lhv.lam2
    /\ lhv.w > 0 /\ lhv.w < MixDen
    /\ lhv.chsh = Bound(Two)

\* the expectation value of a combination of Pauli products, by linearity,
\* from measured values est[t] of the products
ByLinearity(obs, est) ==
    Add(Add(Mul(obs.zz, est.zz), Mul(obs.zx, est.zx)),
        Add(Mul(obs.xz, est.xz), Mul(obs.xx, est.xx)))

\* C6: when the hardware cell has finished, its CHSH value is the signed sum
\* (+,+,+,-) of the correlators <A0B0>, <A0B1>, <A1B0>, <A1B1> of Bob's
\* (Z+X)/sqrt2 and (Z-X)/sqrt2 that follow by linearity from the measured
\* <A0 Z1>, <A0 X1>, <A1 Z1>, <A1 X1>.
C6_HardwareAsSimulation ==
    (HwDone /\ AliceZX) =>
        LET est == [zz |-> call.expvals[1], zx |-> call.expvals[2],
                    xz |-> call.expvals[3], xx |-> call.expvals[4]]
            a0b0 == ByLinearity(Prod(ZonQ0, ZplusXonQ1), est)
            a0b1 == ByLinearity(Prod(ZonQ0, ZminusXonQ1), est)
            a1b0 == ByLinearity(Prod(XonQ0, ZplusXonQ1), est)
            a1b1 == ByLinearity(Prod(XonQ0, ZminusXonQ1), est)
        IN  /\ call.observables = <<Prod(ZonQ0, ZonQ1), Prod(ZonQ0, XonQ1),
                                    Prod(XonQ0, ZonQ1), Prod(XonQ0, XonQ1)>>
            /\ Val(call.result) = Sub(Add(Add(a0b0, a0b1), a1b0), a1b1)

\* a run on the processor where the cross correlators are not zero
C6_Witness ==
    /\ HwDone /\ AliceZX /\ OnProcessor
    /\ call.expvals[2] # Zero
    /\ call.expvals[3] # Zero
    /\ call.expvals[2] # call.expvals[3]

\* the value compute_chsh returns for these observables in a fresh session
FreshSessionValue(obsList) ==
    Sub(Add(Add(ExpvalExact(obsList[1]), ExpvalExact(obsList[2])), ExpvalExact(obsList[3])),
        ExpvalExact(obsList[4]))

\* C8 as stated: whatever cells ran before, compute_chsh returns for given
\* observables the value it returns in a fresh session.
C8_NoGlobalState ==
    ChshDone => Val(call.result) = FreshSessionValue(call.observables)

\* C8 amended: compute_chsh reads the module-level name measure_obs when it is
\* called.  While that name is bound to the simulator qnode, the value
\* returned for given observables is the one of a fresh session, whatever
\* other cells ran before (B0, B1 rebound, the processor configured, the
\* hardware observables built); once the section-2 cell has rebound
\* measure_obs, the call runs on the processor with 1000 shots.
C8_DependsOnMeasureObsOnly ==
    ChshDone =>
        /\ OnSimulator => Val(call.result) = FreshSessionValue(call.observables)
        /\ call.observables =
              <<Prod(Val(A0), Val(B0)), Prod(Val(A0), Val(B1)),
                Prod(Val(A1), Val(B0)), Prod(Val(A1), Val(B1))>>

\* a call on the simulator made after the section-2 cells began to run
C8_Witness ==
    /\ ChshDone /\ OnSimulator
    /\ IsBound(my_config) /\ IsBound(observables)
    /\ BobOptimal

IsPrefix(s, t) == Len(s) <= Len(t) /\ s = SubSeq(t, 1, Len(s))

\* the device operations of a finished computation on device d
ExpectedTrace(d, fn, o1, o2, o3, o4) ==
    << <<"bell_pair", d>>, <<"expval", d, o1>>,
       <<"bell_pair", d>>, <<"expval", d, o2>>,
       <<"bell_pair", d>>, <<"expval", d, o3>>,
       <<"bell_pair", d>>, <<"expval", d, o4>> ,
       <<"aggregate", fn>> >>

\* C9: in compute_chsh and in the hardware cell the device operations are, in
\* this order, Bell pair and <A0B0>, Bell pair and <A0B1>, Bell pair and
\* <A1B0>, Bell pair and <A1B1> (hardware: A0 Z, A0 X, A1 Z, A1 X), one
\* measure_obs call at a time; the aggregate is formed after the fourth
\* call has returned and not before.
C9_FourCallsInOrder ==
    (call.fn # "none") =>
        LET d == Val(measure_obs).dev
            exp == IF call.fn = "compute_chsh"
                   THEN ExpectedTrace(d, "compute_chsh",
                                      Prod(Val(A0), Val(B0)), Prod(Val(A0), Val(B1)),
                                      Prod(Val(A1), Val(B0)), Prod(Val(A1), Val(B1)))
                   ELSE ExpectedTrace(d, "hardware",
                                      Prod(Val(A0), ZonQ1), Prod(Val(A0), XonQ1),
                                      Prod(Val(A1), ZonQ1), Prod(Val(A1), XonQ1))
        IN  /\ IsPrefix(trace, exp)
            /\ IsBound(call.result) <=> trace = exp
            /\ ~IsBound(call.result) => Len(trace) = 2 * Len(call.expvals)
            /\ IsBound(call.result) => Len(call.expvals) = 4

\* the hardware cell has finished on the processor
C9_Witness == HwDone /\ OnProcessor /\ Len(trace) = 9

\* C10: when the hardware cell has finished, its CHSH value is
\* sqrt2 * (expvals[0] + expvals[3]), whatever expvals[1] and expvals[2] are,
\* and lies in [-2*sqrt2, 2*sqrt2] when the measured values lie in [-1, 1].
C10_HardwareSimplifies ==
    HwDone =>
        /\ Val(call.result) = Mul(Sqrt2, Add(call.expvals[1], call.expvals[4]))
        /\ (\A i \in 1..4 : InUnit(call.expvals[i])) =>
              /\ Leq(Neg(TwoSqrt2), Val(call.result))
              /\ Leq(Val(call.result), TwoSqrt2)

\* nonzero cross correlators, and the bound 2*sqrt2 met
C10_Witness ==
    /\ HwDone
    /\ call.expvals[2] # Zero /\ call.expvals[3] # Zero
    /\ call.result = Bound(TwoSqrt2)

====
